---- MODULE Spec2Model ----
(***************************************************************************)
(* A model of the code-review agent's tools (src/tools.ts) and of its path *)
(* guard (lib/path, src/unnamed/part_002).                                 *)
(*                                                                         *)
(* Strings are TLA+ strings; Len, SubSeq, Head, Tail and \o act on them    *)
(* character by character, as JavaScript's length, slice and + do on the   *)
(* ASCII strings used here.  An absent optional string (undefined) is      *)
(* written "": the code tests every optional string by truthiness only,    *)
(* and the values it can return in their place are never empty.            *)
(***************************************************************************)
EXTENDS Integers, Sequences, FiniteSets, TLC

VARIABLES
    pc,        \* "ready": the invocation is pending; "done": it has run
    op,        \* the tool or helper invoked
    req,       \* its input
    env,       \* what the collaborators answered during that call
    result,    \* [ok |-> TRUE, value |-> v] or [ok |-> FALSE, error |-> message]
    log,       \* the collaborator calls the invocation issued, in order
    fs,        \* the filesystem: [dirs |-> set of paths, files |-> path :> content]
    fsBefore,  \* the filesystem when the last invocation started
    repeated   \* the last invocation repeated the request of a successful one

vars == <<pc, op, req, env, result, log, fs, fsBefore, repeated>>

(***************************************************************************)
(* String helpers: String.prototype.startsWith, endsWith, includes,        *)
(* split("/"), toLowerCase, trimEnd, trim.                                 *)
(***************************************************************************)
Undefined == ""

Sep == "/"

StartsWith(s, p) == Len(p) <= Len(s) /\ SubSeq(s, 1, Len(p)) = p

EndsWith(s, p) == Len(p) <= Len(s) /\ SubSeq(s, Len(s) - Len(p) + 1, Len(s)) = p

Includes(s, p) == \E i \in 1..(Len(s) - Len(p) + 1) : SubSeq(s, i, i + Len(p) - 1) = p

CharAt(s, i) == SubSeq(s, i, i)

RECURSIVE SplitAcc(_, _, _, _)
SplitAcc(s, sep, cur, acc) ==
    IF s = "" THEN Append(acc, cur)
    ELSE IF Head(s) = sep THEN SplitAcc(Tail(s), sep, "", Append(acc, cur))
    ELSE SplitAcc(Tail(s), sep, cur \o Head(s), acc)

\* s.split(sep) for a one-character separator
SplitOn(s, sep) == SplitAcc(s, sep, "", <<>>)

\* s.split("/")
Split(s) == SplitOn(s, Sep)

\* xs.filter(Boolean) on a list of strings
FilterNonEmpty(xs) == SelectSeq(xs, LAMBDA x : x # "")

RECURSIVE Join(_, _)
Join(xs, sep) ==
    IF xs = <<>> THEN ""
    ELSE IF Len(xs) = 1 THEN xs[1]
    ELSE xs[1] \o sep \o Join(Tail(xs), sep)

UpperChars == "ABCDEFGHIJKLMNOPQRSTUVWXYZ"
LowerChars == "abcdefghijklmnopqrstuvwxyz"

LowerChar(c) ==
    IF \E i \in 1..Len(UpperChars) : CharAt(UpperChars, i) = c
    THEN CharAt(LowerChars, CHOOSE i \in 1..Len(UpperChars) : CharAt(UpperChars, i) = c)
    ELSE c

RECURSIVE ToLowerCase(_)
ToLowerCase(s) == IF s = "" THEN "" ELSE LowerChar(Head(s)) \o ToLowerCase(Tail(s))

IsSpace(c) == c \in {" ", "\t", "\n", "\r"}

RECURSIVE TrimEnd(_)
TrimEnd(s) ==
    IF s # "" /\ IsSpace(CharAt(s, Len(s))) THEN TrimEnd(SubSeq(s, 1, Len(s) - 1)) ELSE s

RECURSIVE TrimStart(_)
TrimStart(s) == IF s # "" /\ IsSpace(Head(s)) THEN TrimStart(Tail(s)) ELSE s

Trim(s) == TrimStart(TrimEnd(s))

\* str.slice(0, n) for n >= 0
SliceTo(s, n) == SubSeq(s, 1, IF n < Len(s) THEN n ELSE Len(s))

(***************************************************************************)
(* node:path on POSIX: resolve, dirname, basename.  Cwd is the process's   *)
(* working directory, against which a relative rootDir is resolved.        *)
(***************************************************************************)
Cwd == "/w"

IsAbsolute(p) == StartsWith(p, Sep)

RECURSIVE NormalizeSegs(_, _)
NormalizeSegs(parts, acc) ==
    IF parts = <<>> THEN acc
    ELSE LET h == Head(parts) IN
         IF h = "" \/ h = "." THEN NormalizeSegs(Tail(parts), acc)
         ELSE IF h = ".."
              THEN NormalizeSegs(Tail(parts),
                                 IF acc = <<>> THEN acc ELSE SubSeq(acc, 1, Len(acc) - 1))
              ELSE NormalizeSegs(Tail(parts), Append(acc, h))

\* the normalized absolute path of an absolute path string
NormalizeAbs(p) == Sep \o Join(NormalizeSegs(Split(p), <<>>), Sep)

\* path.resolve(base, p) for an absolute, normalized base
PathResolve(base, p) ==
    IF p = "" THEN NormalizeAbs(base)
    ELSE IF IsAbsolute(p) THEN NormalizeAbs(p)
    ELSE NormalizeAbs(base \o Sep \o p)

\* path.dirname of a normalized absolute path
Dirname(p) ==
    LET segs == FilterNonEmpty(Split(p))
    IN  IF Len(segs) <= 1 THEN Sep
        ELSE Sep \o Join(SubSeq(segs, 1, Len(segs) - 1), Sep)

\* path.basename: the last non-empty segment
Basename(p) ==
    LET segs == FilterNonEmpty(Split(p))
    IN  IF segs = <<>> THEN "" ELSE segs[Len(segs)]

(***************************************************************************)
(* lib/path: resolveUnderRoot, isPathInsideRoot.                           *)
(***************************************************************************)
ResolvedRoot(rootDir) == PathResolve(Cwd, rootDir)

ResolvedTarget(rootDir, targetPath) == PathResolve(ResolvedRoot(rootDir), targetPath)

InsideNoSep(root, resolved) == resolved = root \/ StartsWith(resolved, root)

\* resolved === root || resolved.startsWith(root + path.sep)
Inside(root, resolved) == resolved = root \/ StartsWith(resolved, root \o Sep)

Ok(v) == [ok |-> TRUE, value |-> v]
Err(m) == [ok |-> FALSE, error |-> m]

TraversalMessage == "Refusing to access path outside rootDir: "

resolveUnderRoot(rootDir, targetPath) ==
    LET root == ResolvedRoot(rootDir)
        resolved == ResolvedTarget(rootDir, targetPath)
    IN  IF ~Inside(root, resolved) THEN Err(TraversalMessage \o resolved)
        ELSE Ok(resolved)

isPathInsideRoot(rootDir, targetPath) ==
    Inside(ResolvedRoot(rootDir), ResolvedTarget(rootDir, targetPath))

(***************************************************************************)
(* tools.ts helpers: shouldExclude, isDocFile, isTestFile, isConfigFile,   *)
(* topLevelScope, truncate.                                                *)
(***************************************************************************)
Every(xs, P(_)) == \A i \in 1..Len(xs) : P(xs[i])

Some(xs, P(_)) == \E i \in 1..Len(xs) : P(xs[i])

\* Array.prototype.includes
ArrayIncludes(xs, x) == \E i \in 1..Len(xs) : xs[i] = x

Filter(xs, P(_)) == SelectSeq(xs, P)

RECURSIVE Concat(_)
Concat(xss) == IF xss = <<>> THEN <<>> ELSE Head(xss) \o Concat(Tail(xss))

excludeFiles ==
    <<"dist", "bun.lock", ".git", "node_modules", "build", "coverage", ".next", ".turbo", "out">>

ExcludedDirs == {"dist", "node_modules", ".git", "build", "coverage", ".next", ".turbo", "out"}

RECURSIVE ReplaceBackslashes(_)
ReplaceBackslashes(s) ==
    IF s = "" THEN ""
    ELSE (IF Head(s) = "\\" THEN "/" ELSE Head(s)) \o ReplaceBackslashes(Tail(s))

shouldExclude(filePath) ==
    LET p == ReplaceBackslashes(filePath)
    IN  \/ ArrayIncludes(excludeFiles, p)
        \/ \E d \in ExcludedDirs : StartsWith(p, d \o "/")
        \/ p \in ExcludedDirs

isDocFile(filePath) ==
    LET p == ToLowerCase(filePath)
    IN  \/ EndsWith(p, ".md")
        \/ EndsWith(p, ".mdx")
        \/ Includes(p, "docs/")
        \/ Basename(p) = "readme.md"

isTestFile(filePath) ==
    LET p == ToLowerCase(filePath)
    IN  \/ Includes(p, "/__tests__/")
        \/ \E suffix \in {".test.ts", ".test.tsx", ".spec.ts", ".spec.tsx", ".test.js", ".spec.js"} :
              EndsWith(p, suffix)

configNames ==
    {"package.json", "tsconfig.json", "bun.lock", "pnpm-lock.yaml", "yarn.lock",
     ".eslintrc.json", ".eslintrc.js", ".prettierrc", ".prettierrc.json", ".npmrc",
     ".nvmrc", ".editorconfig", "dockerfile"}

isConfigFile(filePath) ==
    LET base == ToLowerCase(Basename(filePath))
    IN  \/ base \in configNames
        \/ Includes(filePath, ".github/workflows/")
        \/ EndsWith(base, ".config.js")
        \/ EndsWith(base, ".config.ts")
        \/ EndsWith(base, "rc")

RECURSIVE FirstNested(_)
FirstNested(files) ==
    IF files = <<>> THEN Undefined
    ELSE LET parts == FilterNonEmpty(Split(Head(files)))
         IN  IF Len(parts) > 1 THEN parts[1] ELSE FirstNested(Tail(files))

topLevelScopeRootFallback(files) ==
    IF FirstNested(files) # Undefined THEN FirstNested(files)
    ELSE IF Len(files) = 1
         THEN LET f == files[1]
                  parts == FilterNonEmpty(Split(f))
              IN  IF f = "" THEN Undefined
                  ELSE IF Len(parts) > 0 THEN parts[1] ELSE Undefined
         ELSE Undefined

topLevelScope(files) ==
    IF FirstNested(files) # Undefined THEN FirstNested(files)
    ELSE IF Len(files) = 1
         THEN LET f == files[1]
                  parts == FilterNonEmpty(Split(f))
              IN  IF f = "" THEN Undefined
                  ELSE IF Len(parts) > 1 THEN parts[1] ELSE Undefined
         ELSE Undefined

\* U+2026, one UTF-16 code unit; written as one ASCII character here
Ellipsis == "~"

truncateOffByOne(str, max) ==
    IF Len(str) > max THEN TrimEnd(SliceTo(str, max)) \o Ellipsis ELSE str

truncateFromMax(str, max) ==
    IF Len(str) >= max THEN TrimEnd(SliceTo(str, max - 1)) \o Ellipsis ELSE str

truncate(str, max) ==
    IF Len(str) > max THEN TrimEnd(SliceTo(str, max - 1)) \o Ellipsis ELSE str

Digits == "0123456789"

\* the decimal rendering of a natural number, as a template literal renders it
RECURSIVE NumberToString(_)
NumberToString(n) ==
    IF n < 10 THEN CharAt(Digits, n + 1)
    ELSE NumberToString(n \div 10) \o CharAt(Digits, (n % 10) + 1)

(***************************************************************************)
(* The version-control collaborator (simple-git).  env says what it        *)
(* answers during one invocation:                                          *)
(*   isRepo       the answer of checkIsRepo                                *)
(*   status       [created, modified, deleted, renamed]                    *)
(*   diffSummary  the files of diffSummary(), in order                     *)
(*   fail         the call that throws: "none", "checkIsRepo", "status",   *)
(*                "diffSummary" or "diff"; failAt = k makes the k-th diff  *)
(*                call the one that throws                                 *)
(***************************************************************************)
GitCall(name, arg) == [call |-> name, arg |-> arg]

GitErrorMessage == "fatal: git failed"

\* the text git.diff(["-U0", "--", file]) answers
GitDiffOutput(file) == "@@ -1 +1 @@ " \o file

NotARepoMessage(rootDir) == "Not a git repository: " \o rootDir

(***************************************************************************)
(* getFileChangesInDirectory                                               *)
(***************************************************************************)
FileChangesFailure(message) == Err("Failed to get file changes: " \o message)

DiffLoopAll(files, e, diffs, calls) ==
    [failed |-> FALSE,
     diffs |-> [i \in 1..Len(files) |-> [file |-> files[i], diff |-> GitDiffOutput(files[i])]],
     calls |-> [i \in 1..Len(files) |-> GitCall("diff", files[i])]]

\* the loop over summary.files: the diffs collected and the calls issued,
\* until the list ends or the failing diff call is reached
RECURSIVE DiffLoop(_, _, _, _)
DiffLoop(files, e, diffs, calls) ==
    IF files = <<>> THEN [failed |-> FALSE, diffs |-> diffs, calls |-> calls]
    ELSE LET file == Head(files) IN
         IF shouldExclude(file) THEN DiffLoop(Tail(files), e, diffs, calls)
         ELSE LET issued == Append(calls, GitCall("diff", file)) IN
              IF e.fail = "diff" /\ e.failAt = Len(issued)
              THEN [failed |-> TRUE, diffs |-> diffs, calls |-> issued]
              ELSE DiffLoop(Tail(files), e,
                            Append(diffs, [file |-> file, diff |-> GitDiffOutput(file)]),
                            issued)

CollectDiffs(files, e) == DiffLoop(files, e, <<>>, <<>>)

getFileChangesPartial(r, e) ==
    LET check == <<GitCall("checkIsRepo", "")>>
        summ == <<GitCall("diffSummary", "")>>
        loop == CollectDiffs(e.diffSummary, e)
    IN  IF e.fail = "checkIsRepo"
        THEN [log |-> check, result |-> FileChangesFailure(GitErrorMessage)]
        ELSE IF ~e.isRepo
        THEN [log |-> check, result |-> FileChangesFailure(NotARepoMessage(r.rootDir))]
        ELSE IF e.fail = "diffSummary"
        THEN [log |-> check \o summ, result |-> FileChangesFailure(GitErrorMessage)]
        ELSE [log |-> check \o summ \o loop.calls, result |-> Ok(loop.diffs)]

\* the whole handler: what it returns or throws, and the calls it issued
getFileChangesInDirectory(r, e) ==
    LET check == <<GitCall("checkIsRepo", "")>>
        summ == <<GitCall("diffSummary", "")>>
        loop == CollectDiffs(e.diffSummary, e)
    IN  IF e.fail = "checkIsRepo"
        THEN [log |-> check, result |-> FileChangesFailure(GitErrorMessage)]
        ELSE IF ~e.isRepo
        THEN [log |-> check, result |-> FileChangesFailure(NotARepoMessage(r.rootDir))]
        ELSE IF e.fail = "diffSummary"
        THEN [log |-> check \o summ, result |-> FileChangesFailure(GitErrorMessage)]
        ELSE IF loop.failed
        THEN [log |-> check \o summ \o loop.calls,
              result |-> FileChangesFailure(GitErrorMessage)]
        ELSE [log |-> check \o summ \o loop.calls, result |-> Ok(loop.diffs)]

(***************************************************************************)
(* generateCommitMessage                                                   *)
(***************************************************************************)
CommitFailure(message) == Err("Failed to generate commit message: " \o message)

\* status.renamed.map(r => r.to).filter(x => !!x)
renamed(status) ==
    Filter([i \in 1..Len(status.renamed) |-> status.renamed[i].to], LAMBDA x : x # "")

changedFiles(status) ==
    Filter(status.created \o status.modified \o status.deleted \o renamed(status),
           LAMBDA f : f # "" /\ ~shouldExclude(f))

nonExcludedSummaryFiles(diffSummary) == Filter(diffSummary, LAMBDA f : ~shouldExclude(f))

onlyDocs(files) == Len(files) > 0 /\ Every(files, isDocFile)

onlyTests(files) == Len(files) > 0 /\ Every(files, isTestFile)

onlyConfig(files) == Len(files) > 0 /\ Every(files, isConfigFile)

anyAdded(status) == Some(status.created, LAMBDA f : ~shouldExclude(f))

anyDeleted(status) == Some(status.deleted, LAMBDA f : ~shouldExclude(f))

inferredTypeTestsFirst(type, status, files) ==
    IF type # "" THEN type
    ELSE IF onlyTests(files) THEN "test"
    ELSE IF onlyDocs(files) THEN "docs"
    ELSE IF anyAdded(status) THEN "feat"
    ELSE IF onlyConfig(files) THEN "chore"
    ELSE IF anyDeleted(status) THEN "chore"
    ELSE "refactor"

\* files are the non-excluded files of the diff summary
inferredType(type, status, files) ==
    IF type # "" THEN type
    ELSE IF onlyDocs(files) THEN "docs"
    ELSE IF onlyTests(files) THEN "test"
    ELSE IF onlyConfig(files) THEN "chore"
    ELSE IF anyAdded(status) THEN "feat"
    ELSE IF anyDeleted(status) THEN "chore"
    ELSE "refactor"

derivedScope(scope, files) == IF scope # "" THEN scope ELSE topLevelScope(files)

subjectFullPath(summary, status, files) ==
    LET changed == changedFiles(status) IN
    IF summary # "" THEN summary
    ELSE IF Len(changed) = 1
    THEN IF ArrayIncludes(status.created, changed[1]) THEN "add " \o changed[1]
         ELSE IF ArrayIncludes(status.deleted, changed[1]) THEN "remove " \o changed[1]
         ELSE "update " \o changed[1]
    ELSE IF Len(changed) > 1
    THEN IF topLevelScope(files) # Undefined
         THEN "update " \o topLevelScope(files) \o " files"
         ELSE "update " \o NumberToString(Len(changed)) \o " files"
    ELSE "update project files"

subjectCountsSummary(summary, status, files) ==
    LET changed == changedFiles(status) IN
    IF summary # "" THEN summary
    ELSE IF Len(changed) = 1
    THEN IF ArrayIncludes(status.created, changed[1]) THEN "add " \o Basename(changed[1])
         ELSE IF ArrayIncludes(status.deleted, changed[1]) THEN "remove " \o Basename(changed[1])
         ELSE "update " \o Basename(changed[1])
    ELSE IF Len(changed) > 1
    THEN IF topLevelScope(files) # Undefined
         THEN "update " \o topLevelScope(files) \o " files"
         ELSE "update " \o NumberToString(Len(files)) \o " files"
    ELSE "update project files"

subject(summary, status, files) ==
    LET changed == changedFiles(status) IN
    IF summary # "" THEN summary
    ELSE IF Len(changed) = 1
    THEN LET file == changed[1]
             base == Basename(file)
         IN  IF ArrayIncludes(status.created, file) THEN "add " \o base
             ELSE IF ArrayIncludes(status.deleted, file) THEN "remove " \o base
             ELSE IF ArrayIncludes(status.modified, file) THEN "update " \o base
             ELSE "update " \o base
    ELSE IF Len(changed) > 1
    THEN LET s == topLevelScope(files)
         IN  IF s # Undefined THEN "update " \o s \o " files"
             ELSE "update " \o NumberToString(Len(changed)) \o " files"
    ELSE "update project files"

header(r, status, files) ==
    LET scope == derivedScope(r.scope, files)
    IN  inferredType(r.type, status, files)
          \o (IF scope # Undefined THEN "(" \o scope \o ")" ELSE "")
          \o ": "
          \o truncate(subject(r.summary, status, files), r.maxSubjectLength)

\* the cap of the body's file list
MaxShown == 20

showFilesUncapped(files) == files

showFiles(files) == SubSeq(files, 1, IF Len(files) < MaxShown THEN Len(files) ELSE MaxShown)

prefix(f) ==
    IF isDocFile(f) THEN "docs"
    ELSE IF isTestFile(f) THEN "test"
    ELSE IF isConfigFile(f) THEN "config"
    ELSE "code"

bodyLines(files) ==
    LET shown == showFiles(files)
        bullets == [i \in 1..Len(shown) |-> "- " \o prefix(shown[i]) \o ": " \o shown[i]]
    IN  IF Len(files) > Len(shown)
        THEN Append(bullets,
                    "- " \o Ellipsis \o "and " \o NumberToString(Len(files) - Len(shown))
                         \o " more file(s)")
        ELSE bullets

commitMessage(r, e) ==
    LET files == nonExcludedSummaryFiles(e.diffSummary)
        head == header(r, e.status, files)
    IN  IF ~r.includeBody THEN head
        ELSE Join(<<head, "">> \o bodyLines(files), "\n")

\* the whole handler: what it returns or throws, and the calls it issued
generateCommitMessage(r, e) ==
    LET check == <<GitCall("checkIsRepo", "")>>
        stat == <<GitCall("status", "")>>
        summ == <<GitCall("diffSummary", "")>>
    IN  IF e.fail = "checkIsRepo"
        THEN [log |-> check, result |-> CommitFailure(GitErrorMessage)]
        ELSE IF ~e.isRepo
        THEN [log |-> check, result |-> CommitFailure(NotARepoMessage(r.rootDir))]
        ELSE IF e.fail = "status"
        THEN [log |-> check \o stat, result |-> CommitFailure(GitErrorMessage)]
        ELSE IF e.fail = "diffSummary"
        THEN [log |-> check \o stat \o summ, result |-> CommitFailure(GitErrorMessage)]
        ELSE [log |-> check \o stat \o summ, result |-> Ok(commitMessage(r, e))]

(***************************************************************************)
(* The filesystem collaborator (node:fs/promises).  Paths are normalized   *)
(* absolute paths.  env.fail names an operation the filesystem refuses     *)
(* during one invocation: "none", "mkdir", "writeOpen" (the file cannot be *)
(* opened) or "writeData" (it is opened, hence truncated, and the write of *)
(* the data fails).                                                        *)
(***************************************************************************)
FsCall(name, arg) == [call |-> name, arg |-> arg]

IsDir(f, p) == p \in f.dirs

IsFile(f, p) == p \in DOMAIN f.files

\* fs.stat(p).then(() => true).catch(() => false)
Exists(f, p) == IsDir(f, p) \/ IsFile(f, p)

\* p and every directory above it
RECURSIVE Ancestors(_)
Ancestors(p) == IF p = Sep THEN {Sep} ELSE {p} \cup Ancestors(Dirname(p))

\* fs.mkdir(dirPath, {recursive: true})
\* (a no-op on a directory that exists; refused only when one must be made)
Mkdir(f, dirPath, e) ==
    IF \E a \in Ancestors(dirPath) : IsFile(f, a)
    THEN [ok |-> FALSE, error |-> "ENOTDIR: mkdir", fs |-> f]
    ELSE IF Ancestors(dirPath) \subseteq f.dirs THEN [ok |-> TRUE, error |-> "", fs |-> f]
    ELSE IF e.fail = "mkdir" THEN [ok |-> FALSE, error |-> "EACCES: mkdir", fs |-> f]
    ELSE [ok |-> TRUE, error |-> "", fs |-> [f EXCEPT !.dirs = @ \cup Ancestors(dirPath)]]

PutFile(f, p, data) ==
    [f EXCEPT !.files = [q \in (DOMAIN @) \cup {p} |-> IF q = p THEN data ELSE @[q]]]

\* fs.writeFile(p, data, "utf8"): open with truncation, then write
WriteFile(f, p, data, e) ==
    IF IsDir(f, p) THEN [ok |-> FALSE, error |-> "EISDIR: open", fs |-> f]
    ELSE IF ~IsDir(f, Dirname(p)) THEN [ok |-> FALSE, error |-> "ENOENT: open", fs |-> f]
    ELSE IF e.fail = "writeOpen" THEN [ok |-> FALSE, error |-> "EACCES: open", fs |-> f]
    ELSE IF e.fail = "writeData"
    THEN [ok |-> FALSE, error |-> "ENOSPC: write", fs |-> PutFile(f, p, "")]
    ELSE [ok |-> TRUE, error |-> "", fs |-> PutFile(f, p, data)]

\* ensureDir of lib/path
ensureDir(f, dirPath, e) == Mkdir(f, dirPath, e)

(***************************************************************************)
(* generateMarkdownFile.  A front-matter value is a string ("scalar"), a   *)
(* list of strings ("array") or a mapping of strings ("object").           *)
(***************************************************************************)
RECURSIVE JsonEscape(_)
JsonEscape(s) ==
    IF s = "" THEN ""
    ELSE (IF Head(s) = "\"" THEN "\\\""
          ELSE IF Head(s) = "\\" THEN "\\\\"
          ELSE IF Head(s) = "\n" THEN "\\n"
          ELSE Head(s)) \o JsonEscape(Tail(s))

\* JSON.stringify of a string
JsonStringify(s) == "\"" \o JsonEscape(s) \o "\""

YamlEntry(entry) ==
    IF entry.kind = "array"
    THEN <<entry.key \o ":">> \o [i \in 1..Len(entry.items) |-> "  - " \o entry.items[i]]
    ELSE IF entry.kind = "object"
    THEN <<entry.key \o ":">>
           \o [i \in 1..Len(entry.fields) |->
                  "  " \o entry.fields[i].key \o ": " \o JsonStringify(entry.fields[i].value)]
    ELSE <<entry.key \o ": " \o JsonStringify(entry.value)>>

toSimpleYaml(data) ==
    Join(<<"---">> \o Concat([i \in 1..Len(data) |-> YamlEntry(data[i])]) \o <<"---">>, "\n")

SectionParts(sec) ==
    <<"\n## " \o sec.heading>> \o (IF sec.body # "" THEN <<sec.body>> ELSE <<>>)

finalContent(r) ==
    LET parts ==
            (IF Len(r.frontMatter) > 0 THEN <<toSimpleYaml(r.frontMatter)>> ELSE <<>>)
              \o (IF r.title # "" THEN <<"# " \o r.title>> ELSE <<>>)
              \o Concat([i \in 1..Len(r.sections) |-> SectionParts(r.sections[i])])
              \o (IF r.content # "" THEN <<r.content>> ELSE <<>>)
    IN  Trim(Join(parts, "\n\n")) \o "\n"

FileExistsMessage(relativePath) ==
    "File already exists at " \o relativePath \o ". Pass overwrite=true to replace."

\* exists && !overwrite
refuseExistingNever(exists, overwrite) == FALSE

refuseExisting(exists, overwrite) == exists /\ ~overwrite

\* lines 309-346: what follows the path guard, with fullPath resolved
writeMarkdownAt(r, e, f, fullPath) ==
    LET made == ensureDir(f, Dirname(fullPath), e)
        mkdirCall == <<FsCall("mkdir", Dirname(fullPath))>>
    IN
    IF ~made.ok THEN [result |-> Err(made.error), log |-> mkdirCall, fs |-> made.fs]
    ELSE
    LET exists == Exists(made.fs, fullPath)
        statCall == <<FsCall("stat", fullPath)>>
    IN
    IF refuseExisting(exists, r.overwrite)
    THEN [result |-> Err(FileExistsMessage(r.relativePath)),
          log |-> mkdirCall \o statCall, fs |-> made.fs]
    ELSE
    LET data == finalContent(r)
        written == WriteFile(made.fs, fullPath, data, e)
        writeCall == <<FsCall("writeFile", fullPath)>>
    IN
    IF ~written.ok
    THEN [result |-> Err(written.error),
          log |-> mkdirCall \o statCall \o writeCall, fs |-> written.fs]
    ELSE [result |-> Ok([path |-> fullPath, bytesWritten |-> Len(data),
                         created |-> ~exists, overwritten |-> exists /\ r.overwrite]),
          log |-> mkdirCall \o statCall \o writeCall, fs |-> written.fs]

generateMarkdownFileMkdirFirst(r, e, f) ==
    LET resolved == ResolvedTarget(r.rootDir, r.relativePath)
        made == ensureDir(f, Dirname(resolved), e)
        guard == resolveUnderRoot(r.rootDir, r.relativePath)
    IN  IF ~guard.ok
        THEN [result |-> guard, log |-> <<FsCall("mkdir", Dirname(resolved))>>, fs |-> made.fs]
        ELSE writeMarkdownAt(r, e, f, guard.value)

\* the whole handler: what it returns or throws, the filesystem calls it
\* issued and the filesystem it leaves
generateMarkdownFile(r, e, f) ==
    LET guard == resolveUnderRoot(r.rootDir, r.relativePath)
    IN  IF ~guard.ok THEN [result |-> guard, log |-> <<>>, fs |-> f]
        ELSE writeMarkdownAt(r, e, f, guard.value)

(***************************************************************************)
(* Bounded inputs.                                                         *)
(***************************************************************************)
MaxTargetLen == 3      \* segments of a target path handed to the path guard
MaxSummaryLen == 2     \* files of an enumerated diff summary
MaxStatusFiles == 2    \* entries of an enumerated status, over its four lists
MaxExtra == 2          \* how far a long diff summary exceeds the body's cap
MaxOffset == 2         \* rotations of the long diff summaries

\* all sequences over S of length at most n
SeqsUpTo(S, n) == UNION {[1..k -> S] : k \in 0..n}

EmptyFs == [dirs |-> {Sep}, files |-> <<>>]

NoEnv == [fail |-> "none"]

NoResult == Err("")

\* the state of a pending invocation of tool o with input r and collaborators e
Pending(o, r, e, f) ==
    /\ pc = "ready"
    /\ op = o
    /\ req = r
    /\ env = e
    /\ result = NoResult
    /\ log = <<>>
    /\ fs = f
    /\ fsBefore = f
    /\ repeated = FALSE

(***************************************************************************)
(* The path guard on its own.                                              *)
(***************************************************************************)
GuardRoots == {"/a/b", "/a/b/", "/a", "/", "a/b", "/a/./b/../b"}

GuardSegments == {"..", ".", "b", "bc", "x", ""}

GuardTargets ==
    LET rel == {Join(t, Sep) : t \in UNION {[1..k -> GuardSegments] : k \in 1..MaxTargetLen}}
    IN  (rel \cup {Sep \o t : t \in rel}) \ {""}

InitPath ==
    \E o \in {"resolveUnderRoot", "isPathInsideRoot"}, root \in GuardRoots, target \in GuardTargets :
        Pending(o, [rootDir |-> root, targetPath |-> target], NoEnv, EmptyFs)

ResolveUnderRoot ==
    /\ pc = "ready"
    /\ op = "resolveUnderRoot"
    /\ pc' = "done"
    /\ result' = resolveUnderRoot(req.rootDir, req.targetPath)
    /\ UNCHANGED <<op, req, env, log, fs, fsBefore, repeated>>

IsPathInsideRoot ==
    /\ pc = "ready"
    /\ op = "isPathInsideRoot"
    /\ pc' = "done"
    /\ result' = Ok(isPathInsideRoot(req.rootDir, req.targetPath))
    /\ UNCHANGED <<op, req, env, log, fs, fsBefore, repeated>>

NextPath == ResolveUnderRoot \/ IsPathInsideRoot

SpecPath == InitPath /\ [][NextPath]_vars

\* the segments of a path string, "." and ".." applied, read off the string
\* without the path module's resolve
Segments(p) == NormalizeSegs(Split(p), <<>>)

IsSeqPrefix(xs, ys) == Len(xs) <= Len(ys) /\ SubSeq(ys, 1, Len(xs)) = xs

\* where the target lies, segment by segment: under Cwd unless rootDir is
\* absolute, under the root unless the target is absolute
RootSegments(rootDir) ==
    IF IsAbsolute(rootDir) THEN Segments(rootDir) ELSE Segments(Cwd \o Sep \o rootDir)

TargetSegments(rootDir, targetPath) ==
    IF IsAbsolute(targetPath) THEN Segments(targetPath)
    ELSE NormalizeSegs(Split(targetPath), RootSegments(rootDir))

IsTraversalError(res) == ~res.ok /\ StartsWith(res.error, TraversalMessage)

\* C1: resolveUnderRoot either returns a path whose segments are the root's
\* segments followed by zero or more segments (the root or a descendant of
\* it), or raises the path-traversal error; a sibling whose name only starts
\* with the root's name is never returned.
C1_ResolveStaysUnderRoot ==
    (pc = "done" /\ op = "resolveUnderRoot") =>
        \/ IsTraversalError(result)
        \/ /\ result.ok
           /\ IsSeqPrefix(RootSegments(req.rootDir), FilterNonEmpty(Split(result.value)))
           /\ FilterNonEmpty(Split(result.value)) = TargetSegments(req.rootDir, req.targetPath)

\* the guard has refused the sibling /a/bc/x of root /a/b
C1_Witness_SiblingRefused ==
    /\ pc = "done"
    /\ op = "resolveUnderRoot"
    /\ req.rootDir = "/a/b"
    /\ req.targetPath = "../bc/x"
    /\ IsTraversalError(result)

\* the guard has returned a proper descendant of the root
C1_Witness_DescendantReturned ==
    /\ pc = "done"
    /\ op = "resolveUnderRoot"
    /\ req.rootDir = "/a/b"
    /\ req.targetPath = "x/../bc"
    /\ result.ok
    /\ result.value = "/a/b/bc"

(***************************************************************************)
(* The Markdown writer, called any number of times on one filesystem.      *)
(***************************************************************************)
MdRoot == "/r"

MdPaths ==
    {"n.md", "docs/n.md", ".", "../outside.md", "../rx/n.md"}

MdDocs ==
    {[title |-> "T", content |-> "", sections |-> <<>>, frontMatter |-> <<>>],
     [title |-> "T", content |-> "  B \n",
      sections |-> <<[heading |-> "H", body |-> "B"], [heading |-> "I", body |-> ""]>>,
      frontMatter |-> <<[key |-> "a", kind |-> "scalar", value |-> "x"],
                        [key |-> "l", kind |-> "array", items |-> <<"p", "q">>],
                        [key |-> "o", kind |-> "object",
                         fields |-> <<[key |-> "k", value |-> "say \"hi\""]>>]>>]}

MdRequests ==
    {[rootDir |-> MdRoot, relativePath |-> p, title |-> d.title, content |-> d.content,
      sections |-> d.sections, frontMatter |-> d.frontMatter, overwrite |-> o] :
        p \in MdPaths, d \in MdDocs, o \in BOOLEAN}

MdEnvs == {[fail |-> x] : x \in {"none", "mkdir", "writeOpen", "writeData"}}

MdInitialFs ==
    {EmptyFs,
     [dirs |-> {Sep, MdRoot}, files |-> <<>>],
     [dirs |-> {Sep, MdRoot}, files |-> [q \in {"/r/n.md"} |-> "old\n"]]}

InitMd ==
    /\ pc = "idle"
    /\ op = "none"
    /\ req = [rootDir |-> MdRoot]
    /\ env = NoEnv
    /\ result = NoResult
    /\ log = <<>>
    /\ fs \in MdInitialFs
    /\ fsBefore = fs
    /\ repeated = FALSE

GenerateMarkdownFile ==
    \E r \in MdRequests, e \in MdEnvs :
        LET run == generateMarkdownFile(r, e, fs) IN
        /\ pc # "ready"
        /\ pc' = "done"
        /\ op' = "generateMarkdownFile"
        /\ req' = r
        /\ env' = e
        /\ result' = run.result
        /\ log' = run.log
        /\ fs' = run.fs
        /\ fsBefore' = fs
        /\ repeated' = (pc = "done" /\ op = "generateMarkdownFile" /\ req = r /\ result.ok)

NextMd == GenerateMarkdownFile

SpecMd == InitMd /\ [][NextMd]_vars

MdDone == pc = "done" /\ op = "generateMarkdownFile"

\* the request's target, segment by segment, is not the root nor below it
MdOutside == ~IsSeqPrefix(RootSegments(req.rootDir), TargetSegments(req.rootDir, req.relativePath))

MdTarget == Sep \o Join(TargetSegments(req.rootDir, req.relativePath), Sep)

\* C2: a relativePath that resolves outside rootDir (such as ../outside.md)
\* makes generateMarkdownFile raise the path-traversal error without issuing
\* any filesystem call: no mkdir, no stat, no writeFile, and the filesystem
\* is as it was.
C2_TraversalTouchesNothing ==
    (MdDone /\ MdOutside) =>
        /\ IsTraversalError(result)
        /\ log = <<>>
        /\ fs = fsBefore

\* ../outside.md has been refused
C2_Witness_OutsideRefused ==
    /\ MdDone
    /\ req.relativePath = "../outside.md"
    /\ MdOutside
    /\ IsTraversalError(result)

IsFileExistsError(res) == ~res.ok /\ res.error = FileExistsMessage(req.relativePath)

WroteNothing ==
    /\ fs = fsBefore
    /\ \A i \in 1..Len(log) : log[i].call # "writeFile"

\* C3: whenever the target exists when the call starts and overwrite is
\* false, the call fails with the file-exists error and writes nothing; in
\* particular the second of two successive calls with the same request and
\* overwrite=false fails so, and the file the first call wrote is unchanged.
C3_ExistingFileIsKept ==
    /\ (MdDone /\ ~MdOutside /\ ~req.overwrite /\ Exists(fsBefore, MdTarget)) =>
          (IsFileExistsError(result) /\ WroteNothing)
    /\ (MdDone /\ repeated /\ ~req.overwrite) =>
          /\ IsFileExistsError(result)
          /\ WroteNothing
          /\ IsFile(fs, MdTarget)
          /\ fs.files[MdTarget] = finalContent(req)

\* the second of two equal calls has been refused, the first one's file kept
C3_Witness_SecondCallRefused ==
    /\ MdDone
    /\ repeated
    /\ ~req.overwrite
    /\ req.relativePath = "docs/n.md"
    /\ IsFileExistsError(result)
    /\ fs.files["/r/docs/n.md"] = "# T\n"

(***************************************************************************)
(* The two version-control tools, each applied to one pending invocation.  *)
(* The inputs are the union of a few families, each wide in the fields one *)
(* group of properties is about.                                           *)
(***************************************************************************)
DefaultMaxSubjectLength == 72

MaxSubjectCap == 100

RepoRoot == "/repo"

Paths ==
    {"src/a.ts", "docs/readme.md", "README.md", "src/a.test.ts", "docs/a.test.ts",
     "package.json", "src/__tests__/.npmrc", "dist/x.js", "node_modules\\m.js"}

StatusPaths == {"src/a.ts", "b.ts", "docs/readme.md", "dist/x.js"}

DiffPaths ==
    {"src/a.ts", "b.ts", "outside/a.ts", "dist/x.js", "node_modules\\m.js", "out", "bun.lock"}

DefaultReq ==
    [rootDir |-> RepoRoot, type |-> "", scope |-> "", summary |-> "",
     includeBody |-> TRUE, maxSubjectLength |-> DefaultMaxSubjectLength]

NoStatus == [created |-> <<>>, modified |-> <<>>, deleted |-> <<>>, renamed |-> <<>>]

Repo(status, diffSummary) ==
    [isRepo |-> TRUE, fail |-> "none", failAt |-> 0, status |-> status,
     diffSummary |-> diffSummary]

Input(r, e) == [r |-> r, e |-> e]

\* the status whose lists hold the placed files, in placement order
Placed(ps, list) ==
    LET mine == SelectSeq(ps, LAMBDA x : x.list = list)
    IN  [i \in 1..Len(mine) |-> mine[i].file]

StatusOfPlacements(ps) ==
    [created |-> Placed(ps, "created"),
     modified |-> Placed(ps, "modified"),
     deleted |-> Placed(ps, "deleted"),
     renamed |-> LET to == Placed(ps, "renamed")
                 IN  [i \in 1..Len(to) |-> [from |-> "old/" \o to[i], to |-> to[i]]]]

\* every status with at most n entries over StatusPaths
SeqsUpToStatuses(n) ==
    {StatusOfPlacements(ps) :
        ps \in SeqsUpTo([list : {"created", "modified", "deleted", "renamed"}, file : StatusPaths],
                        n)}

Statuses == SeqsUpToStatuses(MaxStatusFiles)

\* type inference: every short diff summary, with and without adds and deletes
TypeFamily ==
    LET over(t, lists) ==
            {Input([DefaultReq EXCEPT !.type = t, !.includeBody = FALSE],
                   Repo([NoStatus EXCEPT !.created = c, !.deleted = d], files)) :
                c \in {<<>>, <<"src/a.ts">>, <<"dist/x.js">>},
                d \in {<<>>, <<"b.ts">>, <<"dist/x.js">>},
                files \in lists}
    IN  over("", SeqsUpTo(Paths, MaxSummaryLen)) \cup over("fix", SeqsUpTo(Paths, 1))

SubjectSummaries ==
    {<<>>, <<"dist/x.js", "src/a.ts">>, <<"b.ts", "src/a.ts">>, <<"README.md", "b.ts">>,
     <<"docs/readme.md", "docs/guide.md">>}

TwoDocs ==
    {[NoStatus EXCEPT !.modified = <<"docs/readme.md", "docs/guide.md">>],
     [NoStatus EXCEPT !.modified = <<"docs/readme.md">>, !.deleted = <<"docs/guide.md">>]}

\* subject and scope: every small status, with and without overrides
SubjectFamily ==
    {Input([DefaultReq EXCEPT !.scope = sc, !.includeBody = FALSE], Repo(st, files)) :
        sc \in {"", "api"}, st \in Statuses \cup TwoDocs, files \in SubjectSummaries}
      \cup {Input([DefaultReq EXCEPT !.scope = sc, !.summary = "polish the docs",
                                     !.includeBody = FALSE],
                  Repo(st, files)) :
               sc \in {"", "api"}, st \in SeqsUpToStatuses(1), files \in SubjectSummaries}

TruncCases ==
    {[summary |-> "", status |-> NoStatus, files |-> <<>>],
     [summary |-> "", status |-> [NoStatus EXCEPT !.modified = <<"b.ts", "README.md">>],
      files |-> <<"b.ts", "README.md">>],
     [summary |-> "", status |-> [NoStatus EXCEPT !.modified = <<"b.ts", "src/a.ts">>],
      files |-> <<"b.ts", "src/a.ts">>],
     [summary |-> "", status |-> [NoStatus EXCEPT !.created = <<"src/a.ts">>],
      files |-> <<"src/a.ts">>],
     [summary |-> "fix  the   spacing bug", status |-> NoStatus, files |-> <<>>],
     [summary |-> "a b c d e f g h", status |-> NoStatus, files |-> <<"b.ts">>],
     [summary |-> "tidy", status |-> NoStatus, files |-> <<>>]}

\* truncation: every admissible maximum subject length
TruncFamily ==
    {Input([DefaultReq EXCEPT !.summary = c.summary, !.maxSubjectLength = m,
                              !.includeBody = FALSE],
           Repo(c.status, c.files)) :
        c \in TruncCases, m \in 1..MaxSubjectCap}

NonExcludedSeq ==
    <<"src/a.ts", "docs/readme.md", "b.ts", "docs/a.test.ts", "src/a.test.ts", "package.json",
      "src/__tests__/.npmrc", "README.md", "docs/guide.md">>

\* n files that are not excluded, rotated by k
LongList(n, k) == [i \in 1..n |-> NonExcludedSeq[((i + k) % Len(NonExcludedSeq)) + 1]]

\* the same with excluded files in between
Sprinkled(files) ==
    <<"dist/x.js">> \o SubSeq(files, 1, 3) \o <<"node_modules\\m.js">>
                   \o SubSeq(files, 4, Len(files))

LongLists ==
    LET plain == {LongList(n, k) : n \in (MaxShown - 1)..(MaxShown + MaxExtra), k \in 0..MaxOffset}
    IN  plain \cup {Sprinkled(files) : files \in plain}

\* body: diff summaries around the cap of the file list, and short ones
BodyFamily ==
    {Input([DefaultReq EXCEPT !.includeBody = b], Repo(NoStatus, files)) :
        b \in BOOLEAN, files \in LongLists \cup SubjectSummaries}
      \cup {Input(DefaultReq, Repo(NoStatus, files)) : files \in SeqsUpTo(Paths, MaxSummaryLen)}

FailStatuses == {NoStatus, [NoStatus EXCEPT !.created = <<"src/a.ts">>]}

\* failures of the collaborator at each of generateCommitMessage's calls
CommitFailFamily ==
    {Input([DefaultReq EXCEPT !.includeBody = b],
           [Repo(st, files) EXCEPT !.isRepo = repo, !.fail = x]) :
        b \in BOOLEAN, st \in FailStatuses, files \in {<<>>, <<"src/a.ts", "b.ts">>},
        repo \in BOOLEAN, x \in {"none", "checkIsRepo", "status", "diffSummary"}}

CommitInputs ==
    TypeFamily \cup SubjectFamily \cup TruncFamily \cup BodyFamily \cup CommitFailFamily

\* getFileChangesInDirectory: every short diff summary and some long ones,
\* and a failure at each call, the k-th diff included
DiffInputs ==
    {Input([rootDir |-> RepoRoot],
           [Repo(NoStatus, files) EXCEPT !.isRepo = repo, !.fail = x.fail, !.failAt = x.failAt]) :
        files \in SeqsUpTo(DiffPaths, MaxSummaryLen) \cup LongLists,
        repo \in BOOLEAN,
        x \in {[fail |-> "none", failAt |-> 0], [fail |-> "checkIsRepo", failAt |-> 0],
               [fail |-> "diffSummary", failAt |-> 0]}
              \cup {[fail |-> "diff", failAt |-> k] : k \in 1..MaxSummaryLen}}

InitGit ==
    \/ \E x \in CommitInputs : Pending("generateCommitMessage", x.r, x.e, EmptyFs)
    \/ \E x \in DiffInputs : Pending("getFileChangesInDirectory", x.r, x.e, EmptyFs)

GenerateCommitMessage ==
    /\ pc = "ready"
    /\ op = "generateCommitMessage"
    /\ pc' = "done"
    /\ result' = generateCommitMessage(req, env).result
    /\ log' = generateCommitMessage(req, env).log
    /\ UNCHANGED <<op, req, env, fs, fsBefore, repeated>>

GetFileChangesInDirectory ==
    /\ pc = "ready"
    /\ op = "getFileChangesInDirectory"
    /\ pc' = "done"
    /\ result' = getFileChangesInDirectory(req, env).result
    /\ log' = getFileChangesInDirectory(req, env).log
    /\ UNCHANGED <<op, req, env, fs, fsBefore, repeated>>

NextGit == GenerateCommitMessage \/ GetFileChangesInDirectory

SpecGit == InitGit /\ [][NextGit]_vars

(***************************************************************************)
(* The scope deriver on its own, on any list of paths.                     *)
(***************************************************************************)
MaxScopeFiles == 2     \* paths of a list handed to topLevelScope

ScopePaths ==
    {"", "/", "a", "a/", "/a", "a/b", "/a/b", "a//b", "c/d", "src/x/y.ts"}

ScopeLists == SeqsUpTo(ScopePaths, MaxScopeFiles)

InitScope ==
    \E fl \in ScopeLists : Pending("topLevelScope", [files |-> fl], NoEnv, EmptyFs)

TopLevelScope ==
    /\ pc = "ready"
    /\ op = "topLevelScope"
    /\ pc' = "done"
    /\ result' = Ok(topLevelScope(req.files))
    /\ UNCHANGED <<op, req, env, log, fs, fsBefore, repeated>>

NextScope == TopLevelScope

SpecScope == InitScope /\ [][NextScope]_vars

(***************************************************************************)
(* Every tool and helper together.                                         *)
(***************************************************************************)
Init == InitPath \/ InitMd \/ InitGit \/ InitScope

Next == NextPath \/ NextMd \/ NextGit \/ NextScope

Spec == Init /\ [][Next]_vars

(***************************************************************************)
(* Properties of generateCommitMessage, read off the message it returned.  *)
(***************************************************************************)
CommitDone == pc = "done" /\ op = "generateCommitMessage"

CommitReturned == CommitDone /\ result.ok

\* the lines of the returned message
MessageLines == SplitOn(result.value, "\n")

HeaderLine == MessageLines[1]

\* the position of the first occurrence of p in s, 0 when there is none
IndexOf(s, p) ==
    IF Includes(s, p)
    THEN CHOOSE i \in 1..Len(s) :
            /\ SubSeq(s, i, i + Len(p) - 1) = p
            /\ \A j \in 1..(i - 1) : SubSeq(s, j, j + Len(p) - 1) # p
    ELSE 0

\* header = type [ "(" scope ")" ] ": " subject
HeaderPrefix == SubSeq(HeaderLine, 1, IndexOf(HeaderLine, ": ") - 1)

HeaderType ==
    IF Includes(HeaderPrefix, "(")
    THEN SubSeq(HeaderPrefix, 1, IndexOf(HeaderPrefix, "(") - 1)
    ELSE HeaderPrefix

HeaderSubject == SubSeq(HeaderLine, IndexOf(HeaderLine, ": ") + 2, Len(HeaderLine))

\* the files of the diff summary that are not excluded, in order
SummaryFiles == SelectSeq(env.diffSummary, LAMBDA f : ~shouldExclude(f))

CreatedFiles == SelectSeq(env.status.created, LAMBDA f : ~shouldExclude(f))

DeletedFiles == SelectSeq(env.status.deleted, LAMBDA f : ~shouldExclude(f))

\* the entries of the status that are not excluded: created, modified,
\* deleted, then the destinations of the renames
StatusFiles ==
    SelectSeq(env.status.created \o env.status.modified \o env.status.deleted
                \o [i \in 1..Len(env.status.renamed) |-> env.status.renamed[i].to],
              LAMBDA f : ~shouldExclude(f))

AllOf(files, P(_)) == files # <<>> /\ \A i \in 1..Len(files) : P(files[i])

\* C4: the type in the header is the first of: the type override; docs if
\* the non-excluded files of the diff summary are non-empty and all
\* documentation; test if all tests; chore if all configuration; feat if a
\* non-excluded created file exists; chore if a non-excluded deleted file
\* exists; refactor.
C4_TypeFollowsPriorityList ==
    CommitReturned =>
        /\ req.type # "" => HeaderType = req.type
        /\ req.type = "" =>
            /\ AllOf(SummaryFiles, isDocFile) => HeaderType = "docs"
            /\ (~AllOf(SummaryFiles, isDocFile) /\ AllOf(SummaryFiles, isTestFile))
                  => HeaderType = "test"
            /\ (/\ ~AllOf(SummaryFiles, isDocFile)
                /\ ~AllOf(SummaryFiles, isTestFile)
                /\ AllOf(SummaryFiles, isConfigFile)) => HeaderType = "chore"
            /\ (/\ ~AllOf(SummaryFiles, isDocFile)
                /\ ~AllOf(SummaryFiles, isTestFile)
                /\ ~AllOf(SummaryFiles, isConfigFile)) =>
                    HeaderType = IF CreatedFiles # <<>> THEN "feat"
                                 ELSE IF DeletedFiles # <<>> THEN "chore"
                                 ELSE "refactor"

\* files that are both documentation and tests, with a created file, gave docs
C4_Witness_DocsBeatsTestAndFeat ==
    /\ CommitReturned
    /\ req.type = ""
    /\ env.diffSummary = <<"docs/a.test.ts", "dist/x.js">>
    /\ env.status.created = <<"src/a.ts">>
    /\ HeaderType = "docs"

\* the original C5: a subject longer than the maximum M comes out exactly M
\* characters long, ending with the ellipsis
C5_Original_ExactlyMaxLong ==
    (CommitReturned
       /\ Len(subject(req.summary, env.status, SummaryFiles)) > req.maxSubjectLength) =>
        /\ Len(HeaderSubject) = req.maxSubjectLength
        /\ EndsWith(HeaderSubject, Ellipsis)

\* C5 (amended): a subject longer than the maximum M comes out at most M
\* characters long, as a prefix of the subject followed by the ellipsis; it
\* is exactly M long unless the subject's character M-1 is whitespace (then
\* the whitespace before the cut is trimmed and the result is shorter).
C5_TruncatedWithinMax ==
    LET subj == subject(req.summary, env.status, SummaryFiles)
        m == req.maxSubjectLength
    IN  (CommitReturned /\ Len(subj) > m) =>
            /\ Len(HeaderSubject) <= m
            /\ EndsWith(HeaderSubject, Ellipsis)
            /\ StartsWith(subj, SubSeq(HeaderSubject, 1, Len(HeaderSubject) - 1))
            /\ Len(HeaderSubject) = m <=> (m = 1 \/ ~IsSpace(CharAt(subj, m - 1)))

\* with maximum 10 the derived subject "update 2 files" came out 9 long
C5_Witness_TrimmedBelowMax ==
    /\ CommitReturned
    /\ req.summary = ""
    /\ req.maxSubjectLength = 10
    /\ subject(req.summary, env.status, SummaryFiles) = "update 2 files"
    /\ HeaderSubject = "update 2" \o Ellipsis

NoOverrides == req.type = "" /\ req.scope = "" /\ req.summary = ""

OnlyCreatedSrcA ==
    env.status = [created |-> <<"src/a.ts">>, modified |-> <<>>, deleted |-> <<>>,
                  renamed |-> <<>>]

\* the original C6: one created file src/a.ts and no other change give the
\* header feat(src): add a.ts
C6_Original_CreatedFileHeader ==
    (CommitReturned /\ NoOverrides /\ OnlyCreatedSrcA
       /\ req.maxSubjectLength = DefaultMaxSubjectLength
       /\ \A i \in 1..Len(env.diffSummary) : env.diffSummary[i] = "src/a.ts") =>
        HeaderLine = "feat(src): add a.ts"

\* C6 (amended): one created file src/a.ts and no other change, with a diff
\* summary whose only non-excluded file is src/a.ts and a maximum subject
\* length of at least 8, give the header feat(src): add a.ts; with a diff
\* summary that lists no file they give feat: add a.ts.
C6_CreatedFileHeader ==
    (CommitReturned /\ NoOverrides /\ OnlyCreatedSrcA /\ req.maxSubjectLength >= 8) =>
        /\ SummaryFiles = <<"src/a.ts">> => HeaderLine = "feat(src): add a.ts"
        /\ SummaryFiles = <<>> => HeaderLine = "feat: add a.ts"

C6_Witness_CreatedFileHeader ==
    /\ CommitReturned
    /\ NoOverrides
    /\ OnlyCreatedSrcA
    /\ env.diffSummary = <<"dist/x.js", "src/a.ts">>
    /\ HeaderLine = "feat(src): add a.ts"

TwoModifiedDocs ==
    env.status = [created |-> <<>>, modified |-> <<"docs/readme.md", "docs/guide.md">>,
                  deleted |-> <<>>, renamed |-> <<>>]

\* the original C7, in its particular case: two modified files
\* docs/readme.md and docs/guide.md give docs(docs): update docs files
C7_Original_TwoDocsHeader ==
    (CommitReturned /\ NoOverrides /\ TwoModifiedDocs
       /\ req.maxSubjectLength = DefaultMaxSubjectLength
       /\ \A i \in 1..Len(env.diffSummary) :
             env.diffSummary[i] \in {"docs/readme.md", "docs/guide.md"}) =>
        HeaderLine = "docs(docs): update docs files"

\* the first segment of the first file with more than one segment, else ""
FirstSegmentOfNested(files) ==
    LET nested == SelectSeq(files, LAMBDA f : Len(FilterNonEmpty(Split(f))) > 1)
    IN  IF nested = <<>> THEN "" ELSE FilterNonEmpty(Split(nested[1]))[1]

\* the subject C7 (amended) expects for the status and diff summary at hand
C7_ExpectedSubject ==
    LET n == Len(StatusFiles)
        s == FirstSegmentOfNested(SummaryFiles)
    IN  IF n = 1
        THEN (IF StatusFiles[1] \in {env.status.created[i] : i \in 1..Len(env.status.created)}
              THEN "add "
              ELSE IF StatusFiles[1] \in {env.status.deleted[i] : i \in 1..Len(env.status.deleted)}
              THEN "remove "
              ELSE "update ") \o Basename(StatusFiles[1])
        ELSE IF n > 1
        THEN (IF s # "" THEN "update " \o s \o " files"
              ELSE "update " \o NumberToString(n) \o " files")
        ELSE "update project files"

\* C7 (amended): with no subject override, and a maximum subject length the
\* subject fits in, the subject follows the number N of non-excluded status
\* entries (created, modified, deleted, rename destinations): one entry
\* gives add/remove/update <basename> as it was created, deleted or
\* neither; more than one gives update <s> files when the non-excluded files
\* of the diff summary yield a top-level scope s (whatever the scope
\* override) and update <N> files otherwise; none gives update project
\* files.  Two modified files docs/readme.md and docs/guide.md that the diff
\* summary lists give docs(docs): update docs files; with a diff summary
\* that lists no file they give refactor: update 2 files.
C7_SubjectFollowsStatus ==
    /\ (CommitReturned /\ req.summary = ""
          /\ Len(C7_ExpectedSubject) <= req.maxSubjectLength) =>
            HeaderSubject = C7_ExpectedSubject
    /\ (CommitReturned /\ NoOverrides /\ TwoModifiedDocs
          /\ req.maxSubjectLength = DefaultMaxSubjectLength
          /\ SummaryFiles # <<>>
          /\ \A i \in 1..Len(SummaryFiles) :
                SummaryFiles[i] \in {"docs/readme.md", "docs/guide.md"}) =>
            HeaderLine = "docs(docs): update docs files"
    /\ (CommitReturned /\ NoOverrides /\ TwoModifiedDocs
          /\ req.maxSubjectLength = DefaultMaxSubjectLength
          /\ SummaryFiles = <<>>) =>
            HeaderLine = "refactor: update 2 files"

C7_Witness_TwoDocsHeader ==
    /\ CommitReturned
    /\ NoOverrides
    /\ TwoModifiedDocs
    /\ env.diffSummary = <<"docs/readme.md", "docs/guide.md">>
    /\ HeaderLine = "docs(docs): update docs files"

\* two root-level files under a scope override: the subject counts them
C7_Witness_CountUnderScopeOverride ==
    /\ CommitReturned
    /\ req.scope = "api"
    /\ req.summary = ""
    /\ Len(StatusFiles) = 2
    /\ HeaderLine = "refactor(api): update 2 files"

\* docs, test, config or code, the first that applies
Kind(f) ==
    IF isDocFile(f) THEN "docs"
    ELSE IF isTestFile(f) THEN "test"
    ELSE IF isConfigFile(f) THEN "config"
    ELSE "code"

\* C8: an included body is, after the header and an empty line, one bullet
\* "- <kind>: <path>" for each of the first 20 non-excluded files of the diff
\* summary, in order, with kind by the precedence docs > test > config >
\* code, then "- ...and <count> more file(s)" exactly when more than 20 such
\* files exist, count being those not listed; never more than 20 file
\* bullets.
C8_BodyListsFirstTwenty ==
    (CommitReturned /\ req.includeBody) =>
        LET n == Len(SummaryFiles)
            k == IF n < 20 THEN n ELSE 20
        IN  /\ Len(MessageLines) = 2 + k + (IF n > 20 THEN 1 ELSE 0)
            /\ MessageLines[2] = ""
            /\ \A i \in 1..k :
                  MessageLines[2 + i] = "- " \o Kind(SummaryFiles[i]) \o ": " \o SummaryFiles[i]
            /\ n > 20 =>
                  MessageLines[3 + k] =
                      "- " \o Ellipsis \o "and " \o NumberToString(n - 20) \o " more file(s)"

\* 22 files: 20 bullets and "and 2 more"
C8_Witness_TwoMore ==
    /\ CommitReturned
    /\ req.includeBody
    /\ Len(SummaryFiles) = 22
    /\ Len(env.diffSummary) = 24
    /\ Len(MessageLines) = 23
    /\ MessageLines[23] = "- " \o Ellipsis \o "and 2 more file(s)"

(***************************************************************************)
(* Properties of getFileChangesInDirectory and of failures.                *)
(***************************************************************************)
DiffDone == pc = "done" /\ op = "getFileChangesInDirectory"

DiffCalls == SelectSeq(log, LAMBDA c : c.call = "diff")

\* C9: on success getFileChangesInDirectory returns one {file, diff} entry
\* for each non-excluded file of the diff summary, in the summary's order,
\* having requested exactly those diffs; it never requests the diff of an
\* excluded path.
C9_DiffsOfNonExcludedInOrder ==
    DiffDone =>
        /\ \A i \in 1..Len(DiffCalls) : ~shouldExclude(DiffCalls[i].arg)
        /\ result.ok =>
            /\ Len(result.value) = Len(SummaryFiles)
            /\ \A i \in 1..Len(SummaryFiles) :
                  /\ result.value[i].file = SummaryFiles[i]
                  /\ result.value[i].diff = GitDiffOutput(SummaryFiles[i])
                  /\ DiffCalls[i].arg = SummaryFiles[i]
            /\ Len(DiffCalls) = Len(SummaryFiles)

C9_Witness_ExcludedSkipped ==
    /\ DiffDone
    /\ result.ok
    /\ env.diffSummary = <<"node_modules\\m.js", "outside/a.ts">>
    /\ Len(result.value) = 1
    /\ result.value[1].file = "outside/a.ts"

\* a collaborator call of the invocation failed, or the root is no repository
CollaboratorFailed ==
    \/ env.fail = "checkIsRepo"
    \/ ~env.isRepo
    \/ env.fail = "diffSummary"
    \/ op = "generateCommitMessage" /\ env.fail = "status"
    \/ op = "getFileChangesInDirectory" /\ env.fail = "diff" /\ env.failAt <= Len(SummaryFiles)

ErrorPrefix ==
    IF op = "generateCommitMessage" THEN "Failed to generate commit message: "
    ELSE "Failed to get file changes: "

\* C10: when the root is no repository or a collaborator call fails
\* (repository check, status, diff summary, the k-th file's diff), both tools
\* end in one wrapped error carrying the original message and return no
\* value, neither a message nor the diffs collected so far; when the root is
\* no repository nothing is asked of the collaborator after the check.
C10_FailureIsOneWrappedError ==
    ((CommitDone \/ DiffDone) /\ CollaboratorFailed) =>
        /\ ~result.ok
        /\ DOMAIN result = {"ok", "error"}
        /\ result.error = ErrorPrefix \o
              (IF env.fail # "checkIsRepo" /\ ~env.isRepo THEN "Not a git repository: " \o req.rootDir
               ELSE GitErrorMessage)
        /\ (env.fail # "checkIsRepo" /\ ~env.isRepo) => log = <<GitCall("checkIsRepo", "")>>

\* the second diff failed after the first had been collected
C10_Witness_SecondDiffFailed ==
    /\ DiffDone
    /\ env.fail = "diff"
    /\ env.failAt = 2
    /\ Len(DiffCalls) = 2
    /\ ~result.ok

C10_Witness_NotARepository ==
    /\ CommitDone
    /\ ~env.isRepo
    /\ env.fail = "none"
    /\ result = Err("Failed to generate commit message: Not a git repository: /repo")

(***************************************************************************)
(* Completion of generateMarkdownFile.                                     *)
(***************************************************************************)
\* the call returned and the target holds exactly the composed document
MdCompleted ==
    /\ result.ok
    /\ IsFile(fs, MdTarget)
    /\ fs.files[MdTarget] = finalContent(req)

\* C11: every generateMarkdownFile call either completes (it returns and the
\* target file holds exactly the composed document) or leaves the
\* filesystem exactly as it was before the call: a failed call has created
\* no directory and changed no file.
C11_CompleteOrUntouched ==
    MdDone => (MdCompleted \/ (~result.ok /\ fs = fsBefore))

(***************************************************************************)
(* Properties of topLevelScope.  A segment of a path is a maximal run of   *)
(* characters other than the separator.                                    *)
(***************************************************************************)
ScopeDone == pc = "done" /\ op = "topLevelScope"

\* the positions of p where a segment starts
SegmentStarts(p) ==
    {i \in 1..Len(p) : CharAt(p, i) # Sep /\ (i = 1 \/ CharAt(p, i - 1) = Sep)}

\* the segment of p that starts at position i
SegmentAt(p, i) ==
    LET ends == {j \in i..Len(p) : \A k \in i..j : CharAt(p, k) # Sep}
    IN  SubSeq(p, i, CHOOSE j \in ends : \A k \in ends : k <= j)

FirstSegment(p) ==
    SegmentAt(p, CHOOSE i \in SegmentStarts(p) : \A k \in SegmentStarts(p) : i <= k)

\* the indices of the paths with more than one segment
NestedAt(files) ==
    {i \in 1..Len(files) : Cardinality(SegmentStarts(files[i])) > 1}

\* C12: for every list of paths topLevelScope returns the first segment of
\* the first path, in list order, that has more than one non-empty segment,
\* and absent when the list is empty or no path has more than one; the
\* single-path fallback never changes what the scan of the list found.
C12_FirstNestedSegment ==
    ScopeDone =>
        /\ result.ok
        /\ IF NestedAt(req.files) = {}
           THEN result.value = Undefined
           ELSE LET i == CHOOSE k \in NestedAt(req.files) : \A m \in NestedAt(req.files) : k <= m
                IN  result.value = FirstSegment(req.files[i])
        /\ result.value = FirstNested(req.files)

\* the second path of the list decided, the first having one segment only
C12_Witness_SecondPathDecides ==
    /\ ScopeDone
    /\ req.files = <<"/a", "c/d">>
    /\ result.value = "c"

\* a single root-level file: the fallback branch runs and yields absent
C12_Witness_SingleRootFile ==
    /\ ScopeDone
    /\ req.files = <<"a/">>
    /\ result.value = Undefined

(***************************************************************************)
(* The subject of the header against the maximum subject length.           *)
(***************************************************************************)
\* the subject before truncation: the override, else the derived one
OriginalSubject == subject(req.summary, env.status, SummaryFiles)

\* C13: for every subject, derived or supplied as an override, and every
\* maximum subject length from 1 to 100, the subject part of the header
\* generateCommitMessage returns is never longer than the maximum, and is
\* the original subject unchanged whenever that is not longer than the
\* maximum.
C13_SubjectWithinMax ==
    CommitReturned =>
        /\ Len(HeaderSubject) <= req.maxSubjectLength
        /\ Len(OriginalSubject) <= req.maxSubjectLength => HeaderSubject = OriginalSubject

\* an override exactly as long as the maximum came out unchanged
C13_Witness_ExactFitUnchanged ==
    /\ CommitReturned
    /\ req.summary = "tidy"
    /\ req.maxSubjectLength = 4
    /\ HeaderLine = "refactor: tidy"

\* with maximum 1 the derived subject came out as the ellipsis alone
C13_Witness_MaxOne ==
    /\ CommitReturned
    /\ req.summary = ""
    /\ req.maxSubjectLength = 1
    /\ OriginalSubject = "add a.ts"
    /\ HeaderSubject = Ellipsis

====
